---- MODULE Spec2Model ----
(***************************************************************************)
(* Rate limiting and abuse protection of the weather bot:                  *)
(*   src/rate_limiter.py  RateLimiter                                      *)
(*   src/security.py      SecurityManager                                  *)
(*   src/bot.py           WeatherBot handlers that compose the two         *)
(*                                                                         *)
(* Time is counted in whole seconds.  datetime.now() is the variable now;  *)
(* timedelta(hours=h) is h * 3600 and timedelta(minutes=m) is m * 60.      *)
(* A Python dict is a function whose DOMAIN is the set of its keys.        *)
(***************************************************************************)
EXTENDS Integers, Sequences, FiniteSets, Bags, TLC

\* ------------------------------------------------------------------ bounds
\* Identities that act in the model.
Users == {1, 2}

\* The identity whose requests the bot handlers are exercised with.
BotUsers == {1}

\* The values of Config.RATE_LIMIT_REQUESTS the bot is exercised with.
BotRequestLimits == {0, 1, 2}

\* Config.RATE_LIMIT_REQUESTS is read from the environment: 0..MaxRequestsCfg.
MaxRequestsCfg == 2

\* Config.RATE_LIMIT_WINDOW_HOURS is read from the environment: 1..MaxWindowHoursCfg.
MaxWindowHoursCfg == 1

\* Handler invocations that may be suspended at the same time.
MaxInFlight == 2

\* Number of times the clock moves forward in one behaviour of the bot.
MaxBotAdvances == 1

\* Number of times the clock moves forward in one behaviour.
MaxAdvances == 2

\* Messages held in the flood and spam trackers together while the cleanup
\* passes are exercised.
MaxTracked == 3

\* Length of the generated message texts.
MaxTextLen == 2

\* --------------------------------------------------------------- variables
VARIABLES
    now,             \* datetime.now(), in seconds
    advances,        \* how many times the clock has advanced
    max_requests,    \* RateLimiter.max_requests
    window_hours,    \* RateLimiter.window_hours
    user_requests,   \* RateLimiter.user_requests: dict user_id -> list of datetimes
    admitted,        \* history: per user, the timestamps of the checks that returned True
    ADMIN_ID,        \* Config.ADMIN_ID
    blocked_users,   \* SecurityManager.blocked_users: set of user ids
    flood_tracker,   \* SecurityManager.flood_tracker: dict user_id -> list of datetimes
    spam_tracker,    \* SecurityManager.spam_tracker: dict user_id -> list of datetimes
    reference_flood, \* history: the flood tracker of the run that receives the same calls but
                     \* no block, no unblock and no check_user_permissions of a blocked user
    inflight,        \* WeatherBot: the bag of handler invocations suspended before their weather fetch
    fetched,         \* history: per user, the admission times of the weather fetches made, in time order
    last             \* history: the operation performed by the latest step

clockVars == <<now, advances>>

limiterVars == <<max_requests, window_hours, user_requests, admitted>>

securityVars == <<ADMIN_ID, blocked_users, flood_tracker, spam_tracker, reference_flood>>

botVars == <<inflight, fetched>>

vars == <<clockVars, limiterVars, securityVars, botVars, last>>

\* ------------------------------------------------------------ pure helpers
Max(a, b) == IF a >= b THEN a ELSE b

Min(a, b) == IF a <= b THEN a ELSE b

RECURSIVE SeqMin(_)
SeqMin(s) == IF Len(s) = 1 THEN s[1] ELSE Min(s[1], SeqMin(Tail(s)))

\* The sorted list s with x put in its place.
RECURSIVE InsertSorted(_, _)
InsertSorted(s, x) ==
    IF s = <<>> THEN <<x>>
    ELSE IF x <= s[1] THEN <<x>> \o s
    ELSE <<s[1]>> \o InsertSorted(Tail(s), x)

\* d[k] = v, the other keys kept (the key is created when it is missing).
DictSet(d, k, v) == [x \in (DOMAIN d) \cup {k} |-> IF x = k THEN v ELSE d[x]]

\* del d[k]
DictDel(d, k) == [x \in (DOMAIN d) \ {k} |-> d[x]]

EmptyDict == [x \in {} |-> <<>>]

\* The list stored for k, or the empty list when k is no key of d.
Stored(d, k) == IF k \in DOMAIN d THEN d[k] ELSE <<>>

\* ------------------------------------------------------------- RateLimiter
\* timedelta(hours=self.window_hours)
WindowDuration == window_hours * 3600

\* window_start = now - timedelta(hours=self.window_hours)
WindowStart(t) == t - WindowDuration

\* Variant: the filter written with >=, keeping an event at window_start.
RecentRequestsIncl(history, window_start) == SelectSeq(history, LAMBDA req_time : req_time >= window_start)

\* [req_time for req_time in user_history if req_time > window_start]
RecentRequests(history, window_start) == SelectSeq(history, LAMBDA req_time : req_time > window_start)

\* Variant: the comparison written with >, admitting one request too many.
LimitExceededOffByOne(history) == Len(history) > max_requests

\* if len(user_history) >= self.max_requests: return False
LimitExceeded(history) == Len(history) >= max_requests

\* The value check_rate_limit(user_id) returns at time t.
CheckRateLimitResult(requests, user_id, t) ==
    ~LimitExceeded(RecentRequests(Stored(requests, user_id), WindowStart(t)))

\* Variant: now is appended before the limit is compared.
HistoryAfterCheckAlwaysAppend(requests, user_id, t) ==
    Append(RecentRequests(Stored(requests, user_id), WindowStart(t)), t)

\* Variant: a denied call drops the oldest stored event.
HistoryAfterCheckEvictOnDenial(requests, user_id, t) ==
    LET user_history == RecentRequests(Stored(requests, user_id), WindowStart(t))
    IN  IF LimitExceeded(user_history)
        THEN SubSeq(user_history, 2, Len(user_history))
        ELSE Append(user_history, t)

\* Variant: the filtered list is only counted, the stored list keeps its
\* stale events.
HistoryAfterCheckKeepsStale(requests, user_id, t) ==
    LET user_history == RecentRequests(Stored(requests, user_id), WindowStart(t))
    IN  IF LimitExceeded(user_history)
        THEN Stored(requests, user_id)
        ELSE Append(Stored(requests, user_id), t)

\* The list check_rate_limit leaves for user_id: filtered in place, and now
\* appended when the call is admitted.
HistoryAfterCheck(requests, user_id, t) ==
    LET user_history == RecentRequests(Stored(requests, user_id), WindowStart(t))
    IN  IF LimitExceeded(user_history) THEN user_history ELSE Append(user_history, t)

\* Variant: the call filters the history of every identity, not only the one
\* of user_id.
RequestsAfterCheckFiltersAll(requests, user_id, t) ==
    DictSet([u \in DOMAIN requests |-> RecentRequests(requests[u], WindowStart(t))],
            user_id, HistoryAfterCheck(requests, user_id, t))

\* self.user_requests after check_rate_limit(user_id) at time t.
RequestsAfterCheck(requests, user_id, t) ==
    DictSet(requests, user_id, HistoryAfterCheck(requests, user_id, t))

\* Variant: the stored list is counted without the window filter.
RemainingWithoutFilter(requests, user_id, t) ==
    IF user_id \notin DOMAIN requests
    THEN max_requests
    ELSE Max(0, max_requests - Len(requests[user_id]))

\* get_remaining_requests(user_id)
GetRemainingRequests(requests, user_id, t) ==
    IF user_id \notin DOMAIN requests
    THEN max_requests
    ELSE Max(0, max_requests - Len(RecentRequests(requests[user_id], WindowStart(t))))

\* Variant: the newest stored request is taken instead of the oldest.
GetResetTimeNewest(requests, user_id, t) ==
    IF user_id \notin DOMAIN requests \/ requests[user_id] = <<>>
    THEN t
    ELSE requests[user_id][Len(requests[user_id])] + WindowDuration

\* get_reset_time(user_id)
GetResetTime(requests, user_id, t) ==
    IF user_id \notin DOMAIN requests \/ requests[user_id] = <<>>
    THEN t
    ELSE SeqMin(requests[user_id]) + WindowDuration

\* Variant: the pass deletes every history.
RequestsAfterCleanupClearsAll(requests, t) == EmptyDict

\* Variant: the pass deletes the history of every identity that had a stale
\* request, the fresh requests with it.
RequestsAfterCleanupDropsTouched(requests, t) ==
    LET kept == {u \in DOMAIN requests :
                    requests[u] # <<>> /\ RecentRequests(requests[u], WindowStart(t)) = requests[u]}
    IN  [u \in kept |-> requests[u]]

\* cleanup_old_requests(): every history filtered, the empty ones deleted.
RequestsAfterCleanup(requests, t) ==
    LET kept == {u \in DOMAIN requests : RecentRequests(requests[u], WindowStart(t)) # <<>>}
    IN  [u \in kept |-> RecentRequests(requests[u], WindowStart(t))]

\* --------------------------------------------------------- SecurityManager
\* self.max_messages_per_minute = 10
max_messages_per_minute == 10

\* window_start = now - timedelta(minutes=1)
FloodWindowStart(t) == t - 60

\* Variant: the filter written with >=, keeping a message at window_start.
RecentMessagesIncl(messages, window_start) == SelectSeq(messages, LAMBDA msg_time : msg_time >= window_start)

\* [msg_time for msg_time in user_messages if msg_time > window_start]
RecentMessages(messages, window_start) == SelectSeq(messages, LAMBDA msg_time : msg_time > window_start)

\* Variant: the comparison written with >, admitting an eleventh message.
FloodExceededOffByOne(messages) == Len(messages) > max_messages_per_minute

\* if len(user_messages) >= self.max_messages_per_minute: ... return False
FloodExceeded(messages) == Len(messages) >= max_messages_per_minute

\* The value check_flood_protection(user_id) returns at time t.
CheckFloodResult(tracker, user_id, t) ==
    ~FloodExceeded(RecentMessages(Stored(tracker, user_id), FloodWindowStart(t)))

\* Variant: the filtered list is only counted, the stored list keeps its
\* stale messages.
MessagesAfterFloodCheckKeepsStale(tracker, user_id, t) ==
    LET user_messages == RecentMessages(Stored(tracker, user_id), FloodWindowStart(t))
    IN  IF FloodExceeded(user_messages)
        THEN Stored(tracker, user_id)
        ELSE Append(Stored(tracker, user_id), t)

\* Variant: the message is recorded before the limit is compared.
MessagesAfterFloodCheckAlwaysRecords(tracker, user_id, t) ==
    Append(RecentMessages(Stored(tracker, user_id), FloodWindowStart(t)), t)

\* The list check_flood_protection leaves for user_id.
MessagesAfterFloodCheck(tracker, user_id, t) ==
    LET user_messages == RecentMessages(Stored(tracker, user_id), FloodWindowStart(t))
    IN  IF FloodExceeded(user_messages) THEN user_messages ELSE Append(user_messages, t)

\* self.flood_tracker after check_flood_protection(user_id) at time t.
FloodAfterCheck(tracker, user_id, t) ==
    DictSet(tracker, user_id, MessagesAfterFloodCheck(tracker, user_id, t))

\* self.max_identical_messages = 3
max_identical_messages == 3

\* self.spam_window_minutes = 5
spam_window_minutes == 5

\* window_start = now - timedelta(minutes=self.spam_window_minutes)
SpamWindowStart(t) == t - spam_window_minutes * 60

\* identical_count = sum(1 for _ in user_messages): every retained message
\* counts, whatever its text.
SpamExceeded(messages) == Len(messages) >= max_identical_messages

\* Variant: a text of fewer than three characters is let through unchecked.
CheckSpamResultShortExempt(tracker, user_id, message_text, t) ==
    \/ Len(message_text) < 3
    \/ ~SpamExceeded(RecentMessages(Stored(tracker, user_id), SpamWindowStart(t)))

\* The value check_spam_detection(user_id, message_text) returns at time t;
\* message_text is not read.
CheckSpamResult(tracker, user_id, message_text, t) ==
    ~SpamExceeded(RecentMessages(Stored(tracker, user_id), SpamWindowStart(t)))

\* self.spam_tracker after check_spam_detection(user_id, message_text).
SpamAfterCheck(tracker, user_id, message_text, t) ==
    LET user_messages == RecentMessages(Stored(tracker, user_id), SpamWindowStart(t))
    IN  DictSet(tracker, user_id,
                IF SpamExceeded(user_messages) THEN user_messages ELSE Append(user_messages, t))

\* cutoff_time = now - timedelta(hours=1)
TrackingCutoff(t) == t - 3600

\* Variant: the lists are filtered but the empty ones are not deleted.
TrackingAfterCleanupKeepsEmpty(tracker, t) ==
    [u \in DOMAIN tracker |-> RecentMessages(tracker[u], TrackingCutoff(t))]

\* Variant: the cutoff of the pass is one minute back, the flood window,
\* instead of one hour.
TrackingAfterCleanupMinuteCutoff(tracker, t) ==
    LET kept == {u \in DOMAIN tracker : RecentMessages(tracker[u], FloodWindowStart(t)) # <<>>}
    IN  [u \in kept |-> RecentMessages(tracker[u], FloodWindowStart(t))]

\* cleanup_old_tracking_data(), for one of the two trackers: every list
\* filtered, the empty ones deleted.
TrackingAfterCleanup(tracker, t) ==
    LET kept == {u \in DOMAIN tracker : RecentMessages(tracker[u], TrackingCutoff(t)) # <<>>}
    IN  [u \in kept |-> RecentMessages(tracker[u], TrackingCutoff(t))]

\* is_user_blocked(user_id)
IsUserBlocked(blocked, user_id) == user_id \in blocked

\* is_admin_user(user_id)
IsAdminUser(user_id) == user_id = ADMIN_ID

\* admin_actions = ["stats", "users", "admin_callback"]
admin_actions == {"stats", "users", "admin_callback"}

\* The security event check_user_permissions logs ("" when it logs none).
PermissionsEvent(blocked, tracker, user_id, action, t) ==
    IF IsUserBlocked(blocked, user_id) THEN "BLOCKED_USER_ACCESS"
    ELSE IF ~CheckFloodResult(tracker, user_id, t) THEN "FLOOD_DETECTED"
    ELSE IF action \in admin_actions /\ ~IsAdminUser(user_id) THEN "UNAUTHORIZED_ADMIN_ACCESS"
    ELSE ""

\* Variant: the admin is let through before the block list is consulted.
CheckUserPermissionsAdminFirst(blocked, tracker, user_id, action, t) ==
    IF IsAdminUser(user_id) THEN TRUE
    ELSE IF IsUserBlocked(blocked, user_id) THEN FALSE
    ELSE IF ~CheckFloodResult(tracker, user_id, t) THEN FALSE
    ELSE IF action \in admin_actions THEN FALSE
    ELSE TRUE

\* Variant: the admin-only test is missing.
CheckUserPermissionsNoAdminSet(blocked, tracker, user_id, action, t) ==
    IF IsUserBlocked(blocked, user_id) THEN FALSE
    ELSE IF ~CheckFloodResult(tracker, user_id, t) THEN FALSE
    ELSE TRUE

\* The value check_user_permissions(user_id, action) returns at time t.
CheckUserPermissionsResult(blocked, tracker, user_id, action, t) ==
    IF IsUserBlocked(blocked, user_id) THEN FALSE
    ELSE IF ~CheckFloodResult(tracker, user_id, t) THEN FALSE
    ELSE IF action \in admin_actions /\ ~IsAdminUser(user_id) THEN FALSE
    ELSE TRUE

\* Variant: the flood check runs before the block list is consulted.
FloodAfterPermissionsAlways(blocked, tracker, user_id, t) ==
    FloodAfterCheck(tracker, user_id, t)

\* self.flood_tracker after check_user_permissions: the flood check runs only
\* for an identity that is not blocked.
FloodAfterPermissions(blocked, tracker, user_id, t) ==
    IF IsUserBlocked(blocked, user_id) THEN tracker ELSE FloodAfterCheck(tracker, user_id, t)

\* ------------------------------------------- SecurityManager: text input
\* A str is the sequence of its characters, each a one-character string.
\* re.IGNORECASE: a pattern letter matches both cases of the letter.
UpperToLower ==
    [c \in {"A","B","C","D","E","F","G","H","I","J","K","L","M","N","O","P","Q","R","S","T","U","V","W","X","Y","Z"} |->
        CASE c = "A" -> "a" [] c = "B" -> "b" [] c = "C" -> "c" [] c = "D" -> "d" [] c = "E" -> "e"
          [] c = "F" -> "f" [] c = "G" -> "g" [] c = "H" -> "h" [] c = "I" -> "i" [] c = "J" -> "j"
          [] c = "K" -> "k" [] c = "L" -> "l" [] c = "M" -> "m" [] c = "N" -> "n" [] c = "O" -> "o"
          [] c = "P" -> "p" [] c = "Q" -> "q" [] c = "R" -> "r" [] c = "S" -> "s" [] c = "T" -> "t"
          [] c = "U" -> "u" [] c = "V" -> "v" [] c = "W" -> "w" [] c = "X" -> "x" [] c = "Y" -> "y"
          [] c = "Z" -> "z"]

Lower(c) == IF c \in DOMAIN UpperToLower THEN UpperToLower[c] ELSE c

LowerLetters ==
    {"a","b","c","d","e","f","g","h","i","j","k","l","m","n","o","p","q","r","s","t","u","v","w","x","y","z"}

Digits == {"0","1","2","3","4","5","6","7","8","9"}

\* \s
IsSpace(c) == c \in {" ", "\t", "\n", "\r"}

\* The literal lit (lower case) stands at position i of s, whatever the case.
MatchesAt(s, i, lit) ==
    /\ i >= 1
    /\ i + Len(lit) - 1 <= Len(s)
    /\ \A k \in 1..Len(lit) : Lower(s[i + k - 1]) = lit[k]

\* '.' matches every character but the newline.
NoNewline(s, from, to) == \A k \in from..to : s[k] # "\n"

\* The least position j >= from among the positions in found, 0 when there
\* is none.
FirstFrom(from, found) ==
    LET hits == {j \in found : j >= from}
    IN  IF hits = {} THEN 0 ELSE CHOOSE j \in hits : \A k \in hits : j <= k

\* self.malicious_patterns, in list order.  kind "literal": the text itself;
\* "attr": text\s*= ; "tag": text.*?> ; "script": <script.*?>.*?</script>
malicious_patterns ==
    << [kind |-> "script",  lit |-> <<"<","s","c","r","i","p","t">>],
       [kind |-> "literal", lit |-> <<"j","a","v","a","s","c","r","i","p","t",":">>],
       [kind |-> "literal", lit |-> <<"v","b","s","c","r","i","p","t",":">>],
       [kind |-> "attr",    lit |-> <<"o","n","l","o","a","d">>],
       [kind |-> "attr",    lit |-> <<"o","n","e","r","r","o","r">>],
       [kind |-> "attr",    lit |-> <<"o","n","c","l","i","c","k">>],
       [kind |-> "tag",     lit |-> <<"<","i","f","r","a","m","e">>],
       [kind |-> "tag",     lit |-> <<"<","o","b","j","e","c","t">>],
       [kind |-> "tag",     lit |-> <<"<","e","m","b","e","d">>] >>

ScriptClose == <<"<","/","s","c","r","i","p","t",">">>

\* Where the match of pattern p that starts at position i of s ends (the
\* position after its last character), 0 when p does not match at i.
MatchEnd(s, i, p) ==
    IF ~MatchesAt(s, i, p.lit) THEN 0
    ELSE LET after == i + Len(p.lit)
             gt    == FirstFrom(after, {j \in DOMAIN s : s[j] = ">"})
         IN  CASE p.kind = "literal" -> after
               [] p.kind = "attr" ->
                    LET eq == FirstFrom(after, {j \in DOMAIN s : ~IsSpace(s[j])})
                    IN  IF eq # 0 /\ s[eq] = "=" THEN eq + 1 ELSE 0
               [] p.kind = "tag" ->
                    IF gt # 0 /\ NoNewline(s, after, gt - 1) THEN gt + 1 ELSE 0
               [] p.kind = "script" ->
                    IF gt = 0 \/ ~NoNewline(s, after, gt - 1) THEN 0
                    ELSE LET close == FirstFrom(gt + 1, {j \in DOMAIN s : MatchesAt(s, j, ScriptClose)})
                         IN  IF close # 0 /\ NoNewline(s, gt + 1, close - 1)
                             THEN close + Len(ScriptClose)
                             ELSE 0

\* pattern.search(s)
Search(s, p) == \E i \in 1..Len(s) : MatchEnd(s, i, p) # 0

\* The characters of s at the positions in kept, in their order in s.
Keep(s, kept) ==
    LET positions == SelectSeq([i \in 1..Len(s) |-> i], LAMBDA i : i \in kept)
    IN  [k \in 1..Len(positions) |-> s[positions[k]]]

\* The positions the matches of p cover from position i on: the matches are
\* taken left to right, without overlap.
RECURSIVE Matched(_, _, _)
Matched(s, i, p) ==
    LET start == FirstFrom(i, {j \in DOMAIN s : MatchEnd(s, j, p) # 0})
    IN  IF start = 0 THEN {}
        ELSE (start..(MatchEnd(s, start, p) - 1)) \cup Matched(s, MatchEnd(s, start, p), p)

\* pattern.sub('', s), for the part of s from position i on.
SubFrom(s, i, p) == Keep(s, (i..Len(s)) \ Matched(s, i, p))

\* for pattern in self.compiled_patterns: sanitized = pattern.sub('', sanitized)
RECURSIVE SubAll(_, _)
SubAll(s, k) ==
    IF k = 0 THEN s ELSE SubFrom(SubAll(s, k - 1), 1, malicious_patterns[k])

\* re.sub(r'\s+', ' ', s): of every run of whitespace the last character
\* stays, as a space.
CollapseSpaces(s) ==
    LET kept == Keep(s, {i \in DOMAIN s : ~(IsSpace(s[i]) /\ i < Len(s) /\ IsSpace(s[i + 1]))})
    IN  [k \in 1..Len(kept) |-> IF IsSpace(kept[k]) THEN " " ELSE kept[k]]

\* str.strip()
Strip(s) ==
    IF \A i \in DOMAIN s : IsSpace(s[i]) THEN <<>>
    ELSE LET first == CHOOSE i \in DOMAIN s : ~IsSpace(s[i]) /\ \A k \in 1..(i - 1) : IsSpace(s[k])
             final == CHOOSE i \in DOMAIN s : ~IsSpace(s[i]) /\ \A k \in (i + 1)..Len(s) : IsSpace(s[k])
         IN  SubSeq(s, first, final)

\* Variant: the whitespace is collapsed and trimmed before the patterns are
\* removed.
SanitizeInputTrimsFirst(text) ==
    IF text = <<>> THEN <<>>
    ELSE LET sanitized == SubAll(Strip(CollapseSpaces(text)), Len(malicious_patterns))
         IN  IF Len(sanitized) > 1000
             THEN SubSeq(sanitized, 1, 1000) \o <<".", ".", ".">>
             ELSE sanitized

\* sanitize_input(text)
SanitizeInput(text) ==
    IF text = <<>> THEN <<>>
    ELSE LET sanitized == Strip(CollapseSpaces(SubAll(text, Len(malicious_patterns))))
         IN  IF Len(sanitized) > 1000
             THEN SubSeq(sanitized, 1, 1000) \o <<".", ".", ".">>
             ELSE sanitized

\* valid_pattern = re.compile(r'^[a-zA-Z0-9\s\-\.,\(\)]+$')
IsLocationChar(c) ==
    \/ Lower(c) \in LowerLetters
    \/ c \in Digits
    \/ IsSpace(c)
    \/ c \in {"-", ".", ",", "(", ")"}

\* Variant: the length test is made on the stripped text.
ValidateLocationInputStripsFirst(location) ==
    IF location = <<>> \/ Strip(location) = <<>> THEN FALSE
    ELSE IF Len(Strip(location)) > 100 THEN FALSE
    ELSE IF \E k \in DOMAIN malicious_patterns : Search(location, malicious_patterns[k]) THEN FALSE
    ELSE IF ~(\A i \in DOMAIN location : IsLocationChar(location[i])) THEN FALSE
    ELSE TRUE

\* validate_location_input(location)
ValidateLocationInput(location) ==
    IF location = <<>> \/ Strip(location) = <<>> THEN FALSE
    ELSE IF Len(location) > 100 THEN FALSE
    ELSE IF \E k \in DOMAIN malicious_patterns : Search(location, malicious_patterns[k]) THEN FALSE
    ELSE IF ~(\A i \in DOMAIN location : IsLocationChar(location[i])) THEN FALSE
    ELSE TRUE

\* Variant: the ranges written with strict comparisons.
ValidateCoordinatesExclusive(latitude, longitude) ==
    IF ~(-90 < latitude /\ latitude < 90) THEN FALSE
    ELSE IF ~(-180 < longitude /\ longitude < 180) THEN FALSE
    ELSE TRUE

\* validate_coordinates(latitude, longitude)
ValidateCoordinates(latitude, longitude) ==
    IF ~(-90 <= latitude /\ latitude <= 90) THEN FALSE
    ELSE IF ~(-180 <= longitude /\ longitude <= 180) THEN FALSE
    ELSE TRUE

\* ------------------------------------------------------ WeatherBot gates
\* What a handler does before its first suspension: the reply it decides on
\* (outcome "fetch": it goes on to the weather fetch), the flood tracker and
\* the rate-limit dict it leaves, and which checks it called.
\*   permission: "granted", "denied", "not_checked"
\*   rate:       "admitted", "denied", "not_called"
Gate(outcome, tracker, requests, permission, rate) ==
    [outcome |-> outcome, flood |-> tracker, requests |-> requests,
     permission |-> permission, rate |-> rate]

\* Variant: the rate limit is checked first, before the permissions.
LocationGateRateFirst(blocked, tracker, requests, user_id, latitude, longitude, t) ==
    IF ~CheckRateLimitResult(requests, user_id, t)
    THEN Gate("rate_limited", tracker, RequestsAfterCheck(requests, user_id, t), "not_checked", "denied")
    ELSE IF ~CheckUserPermissionsResult(blocked, tracker, user_id, "location_message", t)
    THEN Gate("access_denied", FloodAfterPermissions(blocked, tracker, user_id, t),
              RequestsAfterCheck(requests, user_id, t), "denied", "admitted")
    ELSE IF ~ValidateCoordinates(latitude, longitude)
    THEN Gate("invalid_coordinates", FloodAfterPermissions(blocked, tracker, user_id, t),
              RequestsAfterCheck(requests, user_id, t), "granted", "admitted")
    ELSE Gate("fetch", FloodAfterPermissions(blocked, tracker, user_id, t),
              RequestsAfterCheck(requests, user_id, t), "granted", "admitted")

\* location_handler: permissions, then coordinates, then the rate limit.
LocationGate(blocked, tracker, requests, user_id, latitude, longitude, t) ==
    LET flood == FloodAfterPermissions(blocked, tracker, user_id, t)
    IN  IF ~CheckUserPermissionsResult(blocked, tracker, user_id, "location_message", t)
        THEN Gate("access_denied", flood, requests, "denied", "not_called")
        ELSE IF ~ValidateCoordinates(latitude, longitude)
        THEN Gate("invalid_coordinates", flood, requests, "granted", "not_called")
        ELSE IF ~CheckRateLimitResult(requests, user_id, t)
        THEN Gate("rate_limited", flood, RequestsAfterCheck(requests, user_id, t), "granted", "denied")
        ELSE Gate("fetch", flood, RequestsAfterCheck(requests, user_id, t), "granted", "admitted")

\* The texts of the two keyboard buttons; the emoji are single characters,
\* named by their code points.
DonateButton == <<"U+1F49D", " ", "D", "o", "n", "a", "t", "e">>

HelpButton == <<"U+2139", "U+FE0F", " ", "H", "e", "l", "p">>

\* text_handler: permissions, then the keyboard buttons, then the rate limit,
\* then sanitize_input and validate_location_input.
TextGate(blocked, tracker, requests, user_id, message_text, t) ==
    LET text  == Strip(message_text)
        flood == FloodAfterPermissions(blocked, tracker, user_id, t)
    IN  IF ~CheckUserPermissionsResult(blocked, tracker, user_id, "text_message", t)
        THEN Gate("access_denied", flood, requests, "denied", "not_called")
        ELSE IF text = DonateButton \/ text = HelpButton
        THEN Gate("button", flood, requests, "granted", "not_called")
        ELSE IF ~CheckRateLimitResult(requests, user_id, t)
        THEN Gate("rate_limited", flood, RequestsAfterCheck(requests, user_id, t), "granted", "denied")
        ELSE IF ~ValidateLocationInput(SanitizeInput(text))
        THEN Gate("invalid_location", flood, RequestsAfterCheck(requests, user_id, t), "granted", "admitted")
        ELSE Gate("fetch", flood, RequestsAfterCheck(requests, user_id, t), "granted", "admitted")

\* query.data.split("_"): the number of parts, and whether parts[1] and
\* parts[2] are text float() accepts.
CallbackData ==
    { [parts |-> 3, numeric |-> TRUE], [parts |-> 3, numeric |-> FALSE], [parts |-> 1, numeric |-> FALSE] }

\* Variant: the return after the rate-limit answer is missing.
CallbackGateFetchOnDenial(tracker, requests, user_id, data, t) ==
    IF ~(data.parts >= 3)
    THEN Gate("invalid_data", tracker, requests, "not_checked", "not_called")
    ELSE IF ~data.numeric
    THEN Gate("error", tracker, requests, "not_checked", "not_called")
    ELSE IF ~CheckRateLimitResult(requests, user_id, t)
    THEN Gate("fetch", tracker, RequestsAfterCheck(requests, user_id, t), "not_checked", "denied")
    ELSE Gate("fetch", tracker, RequestsAfterCheck(requests, user_id, t), "not_checked", "admitted")

\* _handle_refresh_callback, _handle_current_callback and
\* _handle_forecast_callback: the data is parsed, then the rate limit; the
\* permissions are not checked.
CallbackGate(tracker, requests, user_id, data, t) ==
    IF ~(data.parts >= 3)
    THEN Gate("invalid_data", tracker, requests, "not_checked", "not_called")
    ELSE IF ~data.numeric
    THEN Gate("error", tracker, requests, "not_checked", "not_called")
    ELSE IF ~CheckRateLimitResult(requests, user_id, t)
    THEN Gate("rate_limited", tracker, RequestsAfterCheck(requests, user_id, t), "not_checked", "denied")
    ELSE Gate("fetch", tracker, RequestsAfterCheck(requests, user_id, t), "not_checked", "admitted")

\* ------------------------------------------------------------------- Init
NoOp ==
    [op |-> "none", user |-> 0, action |-> "", result |-> FALSE, event |-> "",
     permission |-> "", rate |-> "", pre |-> <<>>, known |-> FALSE, at |-> 0, text |-> <<>>]

\* Config, as read from the environment when the process starts.
InitConfig ==
    /\ max_requests \in 0..MaxRequestsCfg
    /\ window_hours \in 1..MaxWindowHoursCfg
    /\ ADMIN_ID \in {0} \cup Users

\* RateLimiter.__init__ and SecurityManager.__init__
InitState ==
    /\ now = 0
    /\ advances = 0
    /\ user_requests = EmptyDict
    /\ admitted = [u \in Users |-> <<>>]
    /\ blocked_users = {}
    /\ flood_tracker = EmptyDict
    /\ spam_tracker = EmptyDict
    /\ reference_flood = EmptyDict
    /\ inflight = EmptyBag
    /\ fetched = [u \in Users |-> <<>>]
    /\ last = NoOp

\* The limiter on its own: the admin identity plays no part in it.
InitLimiter ==
    /\ InitConfig
    /\ ADMIN_ID = 0
    /\ InitState

\* ---------------------------------------------------------------- actions
\* What the latest step did: the operation, its user, its result, the list
\* stored for the user before it (known: the user was a key), the time, and
\* the message text of a spam check.
Did(op, user_id, result, requests) ==
    [op |-> op, user |-> user_id, action |-> "", result |-> result, event |-> "",
     permission |-> "", rate |-> "",
     pre |-> Stored(requests, user_id), known |-> user_id \in DOMAIN requests, at |-> now,
     text |-> <<>>]

\* await rate_limiter.check_rate_limit(user_id)
CheckRateLimit(user_id) ==
    LET result == CheckRateLimitResult(user_requests, user_id, now)
    IN  /\ user_requests' = RequestsAfterCheck(user_requests, user_id, now)
        /\ admitted' = IF result
                       THEN [admitted EXCEPT ![user_id] = Append(@, now)]
                       ELSE admitted
        /\ last' = Did("check", user_id, result, user_requests)
        /\ UNCHANGED <<clockVars, max_requests, window_hours, securityVars, botVars>>

\* Variant: the call creates the entry of the user and filters it in place,
\* as check_rate_limit does.
GetRemainingFiltersInPlace(user_id) ==
    /\ user_requests' = DictSet(user_requests, user_id,
                                RecentRequests(Stored(user_requests, user_id), WindowStart(now)))
    /\ last' = Did("remaining", user_id, GetRemainingRequests(user_requests, user_id, now), user_requests)
    /\ UNCHANGED <<clockVars, max_requests, window_hours, admitted, securityVars, botVars>>

\* await rate_limiter.get_remaining_requests(user_id)
GetRemaining(user_id) ==
    /\ last' = Did("remaining", user_id, GetRemainingRequests(user_requests, user_id, now), user_requests)
    /\ UNCHANGED <<clockVars, limiterVars, securityVars, botVars>>

\* await rate_limiter.get_reset_time(user_id)
GetReset(user_id) ==
    /\ last' = Did("reset_time", user_id, GetResetTime(user_requests, user_id, now), user_requests)
    /\ UNCHANGED <<clockVars, limiterVars, securityVars, botVars>>

\* await rate_limiter.cleanup_old_requests()
CleanupOldRequests ==
    /\ user_requests' = RequestsAfterCleanup(user_requests, now)
    /\ last' = [NoOp EXCEPT !.op = "cleanup", !.at = now]
    /\ UNCHANGED <<clockVars, max_requests, window_hours, admitted, securityVars, botVars>>

\* The clock moves forward by d seconds (at most limit times).
AdvanceClock(d, limit) ==
    /\ advances < limit
    /\ d > 0
    /\ now' = now + d
    /\ advances' = advances + 1
    /\ last' = [NoOp EXCEPT !.op = "advance", !.at = now + d]
    /\ UNCHANGED <<limiterVars, securityVars, botVars>>

\* The clock steps the limiter is exercised with: one second, and one second
\* less than the window.
LimiterJumps == {1, WindowDuration - 1}

NextLimiter ==
    \/ \E u \in Users : CheckRateLimit(u)
    \/ \E u \in Users : GetRemaining(u)
    \/ \E u \in Users : GetReset(u)
    \/ CleanupOldRequests
    \/ \E d \in LimiterJumps : AdvanceClock(d, MaxAdvances)

SpecLimiter == InitLimiter /\ [][NextLimiter]_vars

\* ------------------------------------------------- SecurityManager actions
\* The action names check_user_permissions is asked about: the two the
\* handlers pass and the three of admin_actions.
PermissionActions == {"location_message", "text_message"} \cup admin_actions

\* await security.block_user(user_id, reason)
BlockUser(user_id) ==
    /\ blocked_users' = blocked_users \cup {user_id}
    /\ last' = [NoOp EXCEPT !.op = "block", !.user = user_id, !.at = now]
    /\ UNCHANGED <<clockVars, limiterVars, ADMIN_ID, flood_tracker, spam_tracker, reference_flood, botVars>>

\* Variant: unblocking gives the user a fresh flood window.
UnblockUserForgetsFlood(user_id) ==
    /\ blocked_users' = blocked_users \ {user_id}
    /\ flood_tracker' = DictDel(flood_tracker, user_id)
    /\ last' = [NoOp EXCEPT !.op = "unblock", !.user = user_id, !.at = now,
                            !.known = user_id \in blocked_users]
    /\ UNCHANGED <<clockVars, limiterVars, ADMIN_ID, spam_tracker, reference_flood, botVars>>

\* await security.unblock_user(user_id); known: the user was blocked.
UnblockUser(user_id) ==
    /\ blocked_users' = blocked_users \ {user_id}
    /\ last' = [NoOp EXCEPT !.op = "unblock", !.user = user_id, !.at = now,
                            !.known = user_id \in blocked_users]
    /\ UNCHANGED <<clockVars, limiterVars, ADMIN_ID, flood_tracker, spam_tracker, reference_flood, botVars>>

\* await security.check_flood_protection(user_id)
CheckFloodProtection(user_id) ==
    /\ flood_tracker' = FloodAfterCheck(flood_tracker, user_id, now)
    /\ reference_flood' = FloodAfterCheck(reference_flood, user_id, now)
    /\ last' = Did("flood", user_id, CheckFloodResult(flood_tracker, user_id, now), flood_tracker)
    /\ UNCHANGED <<clockVars, limiterVars, ADMIN_ID, blocked_users, spam_tracker, botVars>>

\* await security.check_user_permissions(user_id, action)
CheckUserPermissions(user_id, action) ==
    /\ flood_tracker' = FloodAfterPermissions(blocked_users, flood_tracker, user_id, now)
    /\ reference_flood' = IF IsUserBlocked(blocked_users, user_id)
                          THEN reference_flood
                          ELSE FloodAfterCheck(reference_flood, user_id, now)
    /\ last' = [Did("permissions", user_id,
                    CheckUserPermissionsResult(blocked_users, flood_tracker, user_id, action, now),
                    flood_tracker)
                 EXCEPT !.action = action,
                        !.event = PermissionsEvent(blocked_users, flood_tracker, user_id, action, now)]
    /\ UNCHANGED <<clockVars, limiterVars, ADMIN_ID, blocked_users, spam_tracker, botVars>>

\* The clock steps the security manager is exercised with: one flood window.
SecurityJumps == {60}

InitSecurity ==
    /\ InitConfig
    /\ max_requests = 0
    /\ window_hours = 1
    /\ InitState

NextSecurity ==
    \/ \E u \in Users : BlockUser(u)
    \/ \E u \in Users : UnblockUser(u)
    \/ \E u \in Users : CheckFloodProtection(u)
    \/ \E u \in Users, a \in PermissionActions : CheckUserPermissions(u, a)
    \/ \E d \in SecurityJumps : AdvanceClock(d, MaxAdvances)

SpecSecurity == InitSecurity /\ [][NextSecurity]_vars

\* ------------------------------------------------- the flood check alone
\* The clock steps the flood check is exercised with: one second, and one
\* second less than the flood window.
FloodJumps == {1, 59}

InitFlood ==
    /\ InitConfig
    /\ max_requests = 0
    /\ window_hours = 1
    /\ ADMIN_ID = 0
    /\ InitState

NextFlood ==
    \/ \E u \in Users : CheckFloodProtection(u)
    \/ \E d \in FloodJumps : AdvanceClock(d, MaxAdvances)

SpecFlood == InitFlood /\ [][NextFlood]_vars

\* ------------------------------------------------------ cleanup passes
\* await security.check_spam_detection(user_id, message_text)
CheckSpamDetection(user_id, message_text) ==
    /\ spam_tracker' = SpamAfterCheck(spam_tracker, user_id, message_text, now)
    /\ last' = [Did("spam", user_id, CheckSpamResult(spam_tracker, user_id, message_text, now), spam_tracker)
                 EXCEPT !.text = message_text]
    /\ UNCHANGED <<clockVars, limiterVars, ADMIN_ID, blocked_users, flood_tracker, reference_flood, botVars>>

\* await security.cleanup_old_tracking_data(); result: the number of
\* identities the pass removed from the two trackers.
CleanupOldTrackingData ==
    /\ spam_tracker' = TrackingAfterCleanup(spam_tracker, now)
    /\ flood_tracker' = TrackingAfterCleanup(flood_tracker, now)
    /\ reference_flood' = TrackingAfterCleanup(reference_flood, now)
    /\ last' = [NoOp EXCEPT !.op = "cleanup_tracking", !.at = now,
                            !.result = Cardinality(DOMAIN spam_tracker \ DOMAIN spam_tracker')
                                         + Cardinality(DOMAIN flood_tracker \ DOMAIN flood_tracker')]
    /\ UNCHANGED <<clockVars, limiterVars, ADMIN_ID, blocked_users, botVars>>

\* The message text the spam check is given between the cleanup passes.
CleanupTexts == {<<"h", "i">>}

\* The clock steps the cleanup passes are exercised with: one second, and one
\* second less than the hour both cutoffs lie back.
CleanupJumps == {1, 3599}

\* The number of messages a tracker holds.
RECURSIVE TrackedIn(_)
TrackedIn(tracker) ==
    IF DOMAIN tracker = {} THEN 0
    ELSE LET u == CHOOSE u \in DOMAIN tracker : TRUE
         IN  Len(tracker[u]) + TrackedIn(DictDel(tracker, u))

\* The rate limiter and the security manager share no state but the clock:
\* a behaviour exercises one of the two until its trackers are empty again.
NextCleanup ==
    \/ /\ flood_tracker = EmptyDict /\ spam_tracker = EmptyDict
       /\ \/ \E u \in Users : CheckRateLimit(u)
          \/ CleanupOldRequests
    \/ /\ user_requests = EmptyDict
       /\ \/ \E u \in Users :
                /\ TrackedIn(flood_tracker) + TrackedIn(spam_tracker) < MaxTracked
                /\ CheckFloodProtection(u)
          \/ \E u \in Users, text \in CleanupTexts :
                /\ TrackedIn(flood_tracker) + TrackedIn(spam_tracker) < MaxTracked
                /\ CheckSpamDetection(u, text)
          \/ CleanupOldTrackingData
    \/ \E d \in CleanupJumps : AdvanceClock(d, MaxAdvances)

SpecCleanup == InitLimiter /\ [][NextCleanup]_vars

\* --------------------------------------------- the three window counters
\* The identity whose flood window is filled.
FloodUsers == {1}

\* The message texts the spam check is given.
SpamTexts == {<<"h", "i">>, <<"b", "y", "e">>}

\* The clock steps the spam check is exercised with: one second, and one
\* second less than the spam window.
SpamJumps == {1, spam_window_minutes * 60 - 1}

\* The rate limiter, the flood check and the spam check share no state but
\* the clock: a behaviour fills one of the three, with clock steps that
\* reach the end of its window.
NextCounters ==
    \/ /\ flood_tracker = EmptyDict /\ spam_tracker = EmptyDict
       /\ \/ \E u \in Users : CheckRateLimit(u)
          \/ \E d \in LimiterJumps : AdvanceClock(d, MaxAdvances)
    \/ /\ user_requests = EmptyDict /\ spam_tracker = EmptyDict
       /\ \/ \E u \in FloodUsers : CheckFloodProtection(u)
          \/ \E d \in FloodJumps : AdvanceClock(d, MaxAdvances)
    \/ /\ user_requests = EmptyDict /\ flood_tracker = EmptyDict
       /\ \/ \E u \in Users, text \in SpamTexts : CheckSpamDetection(u, text)
          \/ \E d \in SpamJumps : AdvanceClock(d, MaxAdvances)

SpecCounters == InitLimiter /\ [][NextCounters]_vars

\* ------------------------------- the window counters with cleanup passes
\* The three counters as above, with the cleanup pass of each between the
\* checks and with clock steps that reach the cutoff of the tracking pass.
NextTransparency ==
    \/ NextCounters
    \/ flood_tracker = EmptyDict /\ spam_tracker = EmptyDict /\ CleanupOldRequests
    \/ user_requests = EmptyDict /\ CleanupOldTrackingData
    \/ /\ user_requests = EmptyDict
       /\ flood_tracker # EmptyDict \/ spam_tracker # EmptyDict
       /\ \E d \in CleanupJumps : AdvanceClock(d, MaxAdvances)

SpecTransparency == InitLimiter /\ [][NextTransparency]_vars

\* ------------------------------------------- operations of two identities
\* The rate limiter is configured as in InitLimiter, or the security manager
\* as in InitSecurity.
InitIdentities == InitLimiter \/ InitSecurity

\* The action names check_user_permissions is asked about while two
\* identities are exercised: one the handlers pass and one of admin_actions.
IdentityActions == {"text_message", "stats"}

\* Every operation that takes an identity.  The rate limiter and the security
\* manager share no state but the clock: a behaviour exercises one of the
\* two, the limiter with the clock steps of NextLimiter, the security manager
\* with those of NextSecurity.
NextIdentities ==
    \/ /\ ADMIN_ID = 0 /\ flood_tracker = EmptyDict /\ blocked_users = {}
       /\ \/ \E u \in Users : CheckRateLimit(u)
          \/ \E u \in Users : GetRemaining(u)
          \/ \E u \in Users : GetReset(u)
          \/ \E d \in LimiterJumps : AdvanceClock(d, MaxAdvances)
    \/ /\ max_requests = 0 /\ window_hours = 1 /\ user_requests = EmptyDict
       /\ \/ \E u \in Users : BlockUser(u)
          \/ \E u \in Users : UnblockUser(u)
          \/ \E u \in Users : CheckFloodProtection(u)
          \/ \E u \in Users, a \in IdentityActions : CheckUserPermissions(u, a)
          \/ \E d \in SecurityJumps : AdvanceClock(d, MaxAdvances)

SpecIdentities == InitIdentities /\ [][NextIdentities]_vars

\* ------------------------------------------- the two window trackers
\* The rate limiter and the flood tracker share no state but the clock: a
\* behaviour of this specification exercises one of the two.
TrackerJumps == {60}

NextTrackers ==
    \/ flood_tracker = EmptyDict /\ NextLimiter
    \/ user_requests = EmptyDict /\ \E u \in Users : CheckFloodProtection(u)
    \/ user_requests = EmptyDict /\ \E d \in TrackerJumps : AdvanceClock(d, MaxAdvances)

SpecTrackers == InitLimiter /\ [][NextTrackers]_vars

\* ------------------------------------------------------ WeatherBot actions
\* A handler invocation suspended between its admission and its fetch: its
\* user and the time its rate-limit check admitted it.
Suspended(user_id) == [user |-> user_id, at |-> now]

\* A handler runs from its start to its first suspension: it applies its
\* gate and either replies and returns, or is suspended before the fetch.
HandlerStep(handler, user_id, gate) ==
    /\ gate.outcome = "fetch" => BagCardinality(inflight) < MaxInFlight
    /\ flood_tracker' = gate.flood
    /\ reference_flood' = IF gate.permission = "not_checked" \/ IsUserBlocked(blocked_users, user_id)
                          THEN reference_flood
                          ELSE FloodAfterCheck(reference_flood, user_id, now)
    /\ user_requests' = gate.requests
    /\ admitted' = IF gate.rate = "admitted"
                   THEN [admitted EXCEPT ![user_id] = Append(@, now)]
                   ELSE admitted
    /\ inflight' = IF gate.outcome = "fetch"
                   THEN inflight (+) SetToBag({Suspended(user_id)})
                   ELSE inflight
    /\ last' = [NoOp EXCEPT !.op = handler, !.user = user_id, !.at = now,
                            !.result = gate.outcome = "fetch", !.event = gate.outcome,
                            !.permission = gate.permission, !.rate = gate.rate]
    /\ UNCHANGED <<clockVars, max_requests, window_hours, ADMIN_ID, blocked_users, spam_tracker, fetched>>

\* Shared locations the handler is given: inside, on and outside the ranges.
Locations == {<<90, -180>>, <<91, 0>>}

\* Message texts: a place name, markup, and a keyboard button.
Texts == { <<"R", "o", "m", "e">>, <<"<", "b", ">">>, HelpButton }

LocationHandler(user_id, latitude, longitude) ==
    HandlerStep("location_handler", user_id,
                LocationGate(blocked_users, flood_tracker, user_requests, user_id, latitude, longitude, now))

TextHandler(user_id, message_text) ==
    HandlerStep("text_handler", user_id,
                TextGate(blocked_users, flood_tracker, user_requests, user_id, message_text, now))

RefreshCallback(user_id, data) ==
    HandlerStep("refresh_callback", user_id,
                CallbackGate(flood_tracker, user_requests, user_id, data, now))

CurrentCallback(user_id, data) ==
    HandlerStep("current_callback", user_id,
                CallbackGate(flood_tracker, user_requests, user_id, data, now))

ForecastCallback(user_id, data) ==
    HandlerStep("forecast_callback", user_id,
                CallbackGate(flood_tracker, user_requests, user_id, data, now))

\* A suspended handler resumes and makes its weather fetch
\* (weather_api.get_weather_by_coordinates / get_weather_by_location /
\* get_weather_forecast), then replies and returns.
FetchWeather(request) ==
    /\ BagIn(request, inflight)
    /\ fetched' = [fetched EXCEPT ![request.user] = InsertSorted(@, request.at)]
    /\ inflight' = inflight (-) SetToBag({request})
    /\ last' = [NoOp EXCEPT !.op = "fetch", !.user = request.user, !.at = now]
    /\ UNCHANGED <<clockVars, limiterVars, securityVars>>

\* The clock step the bot is exercised with: one rate-limit window (which is
\* at least sixty flood windows).
BotJumps == {WindowDuration}

InitBot ==
    /\ max_requests \in BotRequestLimits
    /\ window_hours = 1
    /\ ADMIN_ID = 0
    /\ InitState

NextBot ==
    \/ \E u \in BotUsers, location \in Locations : LocationHandler(u, location[1], location[2])
    \/ \E u \in BotUsers, text \in Texts : TextHandler(u, text)
    \/ \E u \in BotUsers, data \in CallbackData : RefreshCallback(u, data)
    \/ \E u \in BotUsers, data \in CallbackData : CurrentCallback(u, data)
    \/ \E u \in BotUsers, data \in CallbackData : ForecastCallback(u, data)
    \/ \E request \in BagToSet(inflight) : FetchWeather(request)
    \/ \E u \in BotUsers : BlockUser(u)
    \/ \E u \in BotUsers : UnblockUser(u)
    \/ \E d \in BotJumps : AdvanceClock(d, MaxBotAdvances)

SpecBot == InitBot /\ [][NextBot]_vars

\* -------------------------------------------- SecurityManager: input calls
\* Latitudes and longitudes in whole degrees: on, one inside and one outside
\* each end of the ranges, and values well inside and well outside.
Latitudes == {-91, -90, -89, 0, 45, 89, 90, 91}

Longitudes == {-200, -181, -180, -179, 0, 179, 180, 181}

\* The characters the generated texts are made of: letters of both cases, a
\* digit, a space, a newline, a comma, an angle bracket and a letter outside
\* a-z (e with acute accent, named by its code point).
TextAlphabet == {"a", "Z", "7", " ", "\n", ",", "<", "U+00E9"}

\* Every text over TextAlphabet of at most MaxTextLen characters.
ShortTexts == UNION {[1..n -> TextAlphabet] : n \in 0..MaxTextLen}

\* Texts with and without a match of a malicious pattern.
PatternTexts ==
    { <<"<", "s", "c", "r", "i", "p", "t", ">", "a", "l", "e", "r", "t", "(", "1", ")", "<", "/", "s", "c", "r", "i", "p", "t", ">", "h", "e", "l", "l", "o">>,
      <<"<", "S", "C", "R", "I", "P", "T", " ", "x", ">", "\n", "<", "/", "s", "c", "r", "i", "p", "t", ">">>,
      <<"j", "a", "v", "a", "s", "c", "r", "i", "p", "t", ":">>,
      <<"V", "b", "S", "c", "r", "i", "p", "t", ":">>,
      <<"o", "n", "l", "o", "a", "d", " ", "=">>,
      <<"o", "n", "e", "r", "r", "o", "r", "=">>,
      <<"o", "n", "c", "l", "i", "c", "k", "\t", "=">>,
      <<"o", "n", "e", "r", "r", "o", "r", " ", "x">>,
      <<"<", "i", "f", "r", "a", "m", "e", ">">>,
      <<"<", "o", "b", "j", "e", "c", "t", " ", "a", ">">>,
      <<"<", "e", "m", "b", "e", "d">>,
      <<"<", "i", "m", "g", " ", "o", "n", "e", "r", "r", "o", "r", "=", "x", ">">>,
      <<"N", "e", "w", " ", "Y", "o", "r", "k", ",", " ", "N", "Y">>,
      <<"j", "a", "v", "a", "<", "e", "m", "b", "e", "d", ">", "s", "c", "r", "i", "p", "t", ":">>,
      <<"S", "t", ".", " ", "D", "e", "n", "i", "s", " ", "(", "P", "a", "r", "i", "s", ")", "-", "2">>,
      <<"<", "i", "f", "r", "a", "m", "e", ">", " ", "R", "o", "m", "e">>,
      <<"a", " ", "<", "e", "m", "b", "e", "d", ">", " ", "b">> }

\* What stands before and after a pattern text.
Affixes == {<<>>, <<" ">>, <<"a">>}

\* The character c, n times.
Repeat(c, n) == [i \in 1..n |-> c]

\* Texts around the two length limits, 100 and 1000 characters.
LongTexts ==
    { Repeat("a", 100), Repeat("a", 101), Repeat("a", 100) \o <<" ">>,
      Repeat("a", 1000), Repeat("a", 1001), <<" ">> \o Repeat("a", 1000) \o <<" ">>,
      [i \in 1..1200 |-> IF i % 2 = 1 THEN "a" ELSE " "] }

InputTexts ==
    ShortTexts \cup LongTexts \cup {before \o text \o after : before \in Affixes, text \in PatternTexts, after \in Affixes}

\* An update arrives with a shared location (message.location.latitude and
\* .longitude) or with a text (message.text).
ReceiveLocation(latitude, longitude) ==
    /\ last.op = "none"
    /\ last' = [NoOp EXCEPT !.op = "location", !.pre = <<latitude, longitude>>]
    /\ UNCHANGED <<clockVars, limiterVars, securityVars, botVars>>

ReceiveText(text) ==
    /\ last.op = "none"
    /\ last' = [NoOp EXCEPT !.op = "text", !.pre = text]
    /\ UNCHANGED <<clockVars, limiterVars, securityVars, botVars>>

\* await security.validate_coordinates(latitude, longitude)
ValidateCoordinatesCall ==
    /\ last.op = "location"
    /\ last' = [last EXCEPT !.op = "validate_coordinates",
                            !.result = ValidateCoordinates(last.pre[1], last.pre[2])]
    /\ UNCHANGED <<clockVars, limiterVars, securityVars, botVars>>

\* await security.validate_location_input(location)
ValidateLocationCall ==
    /\ last.op = "text"
    /\ last' = [last EXCEPT !.op = "validate_location", !.result = ValidateLocationInput(last.pre)]
    /\ UNCHANGED <<clockVars, limiterVars, securityVars, botVars>>

\* await security.sanitize_input(text)
SanitizeCall ==
    /\ last.op = "text"
    /\ last' = [last EXCEPT !.op = "sanitize", !.result = SanitizeInput(last.pre)]
    /\ UNCHANGED <<clockVars, limiterVars, securityVars, botVars>>

\* One input is received and one of the three functions is applied to it.
NextInputs ==
    \/ \E latitude \in Latitudes, longitude \in Longitudes : ReceiveLocation(latitude, longitude)
    \/ \E text \in InputTexts : ReceiveText(text)
    \/ ValidateCoordinatesCall
    \/ ValidateLocationCall
    \/ SanitizeCall

SpecInputs == InitFlood /\ [][NextInputs]_vars

\* ------------------------------------------------------- claims C1 .. C5
\* Stated on their own terms: events are counted with Cardinality over the
\* positions of a list, not with the limiter's filter.
CountAfter(history, cutoff) == Cardinality({i \in DOMAIN history : history[i] > cutoff})

\* How many times the value x occurs in a list.
Occurrences(history, x) == Cardinality({i \in DOMAIN history : history[i] = x})

ValuesOf(history) == {history[i] : i \in DOMAIN history}

\* The admitted checks of u whose timestamps lie in (t - window, t].
AdmittedIn(u, t) ==
    Cardinality({i \in DOMAIN admitted[u] :
                    admitted[u][i] > t - WindowDuration /\ admitted[u][i] <= t})

\* C1: for every identity the number of admitted checks whose timestamps fall
\* in a half-open interval (t - window_duration, t] never exceeds max_requests
\* (the count of an interval is largest when t is the time of an admitted
\* check or the current time, so these are the t examined), and a check made
\* when max_requests admitted checks are already inside the window is denied.
C1_SlidingWindowBound ==
    /\ \A u \in Users : \A t \in ValuesOf(admitted[u]) \cup {now} :
          AdmittedIn(u, t) <= max_requests
    /\ last.op = "check" /\ last.result => AdmittedIn(last.user, last.at) <= max_requests

\* A check is denied after the window has rolled over once: more checks were
\* admitted in total than max_requests.
C1_Witness ==
    /\ last.op = "check" /\ ~last.result
    /\ max_requests >= 1
    /\ Len(admitted[last.user]) > max_requests
    /\ AdmittedIn(last.user, now) = max_requests

\* C2: check returns true iff fewer than max_requests stored events are
\* strictly newer than now - window_duration; when true the stored list is
\* the retained events followed by exactly one event at now, when false no
\* event is appended.
C2_CheckAdmitsIffBelowLimit ==
    last.op = "check" =>
        LET cutoff == last.at - WindowDuration
            cnt    == CountAfter(last.pre, cutoff)
            post   == Stored(user_requests, last.user)
        IN  /\ last.result <=> cnt < max_requests
            /\ last.result =>
                  /\ Len(post) = cnt + 1
                  /\ post[Len(post)] = last.at
                  /\ \A x \in ValuesOf(last.pre) : x > cutoff =>
                        Occurrences(post, x) = Occurrences(last.pre, x) + (IF x = last.at THEN 1 ELSE 0)
            /\ ~last.result =>
                  /\ Len(post) = cnt
                  /\ \A x \in ValuesOf(post) : Occurrences(post, x) = Occurrences(last.pre, x)

\* An admitted check that evicted a stale event, with another event retained.
C2_Witness ==
    /\ last.op = "check" /\ last.result
    /\ CountAfter(last.pre, last.at - WindowDuration) >= 1
    /\ CountAfter(last.pre, last.at - WindowDuration) < Len(last.pre)

\* C3 as stated: a denied check leaves the whole identity-to-sequence mapping
\* identical (no entry created, none evicted, no event appended).
C3_DenialLeavesMappingIdentical ==
    [][/\ last'.op = "check" /\ ~last'.result => user_requests' = user_requests
       /\ last'.op = "flood" /\ ~last'.result => flood_tracker' = flood_tracker]_vars

\* C3 amended: a denied check appends no event and evicts none: the events
\* stored for every identity, and remaining(id), are the same before and
\* after; the mapping itself changes only by gaining an empty entry for an
\* identity that had none, which happens only when max_requests is 0 (never
\* in the flood check, whose limit is 10).
C3_DenialKeepsStoredEvents ==
    [][/\ last'.op = "check" /\ ~last'.result =>
             /\ \A u \in Users :
                   /\ Stored(user_requests', u) = Stored(user_requests, u)
                   /\ GetRemainingRequests(user_requests', u, now)
                         = GetRemainingRequests(user_requests, u, now)
             /\ user_requests' # user_requests =>
                   /\ max_requests = 0
                   /\ last'.user \notin DOMAIN user_requests
                   /\ user_requests' = DictSet(user_requests, last'.user, <<>>)
       /\ last'.op = "flood" /\ ~last'.result => flood_tracker' = flood_tracker]_vars

\* A check denied with the window full: max_requests >= 1 events stored.
C3_Witness ==
    /\ last.op = "check" /\ ~last.result
    /\ max_requests >= 1
    /\ Len(last.pre) = max_requests
    /\ user_requests[last.user] = last.pre

\* C4: remaining(id) = max(0, max_requests - number of stored events newer
\* than now - window_duration); max_requests for an identity with no history;
\* max_requests - N after N < max_requests admitted checks within one window
\* from an empty history.
C4_RemainingIsLimitMinusRecent ==
    /\ \A u \in Users :
          /\ GetRemainingRequests(user_requests, u, now)
                = Max(0, max_requests - CountAfter(Stored(user_requests, u), now - WindowDuration))
          /\ admitted[u] = <<>> => GetRemainingRequests(user_requests, u, now) = max_requests
          /\ (/\ Len(admitted[u]) < max_requests
              /\ \A i \in DOMAIN admitted[u] : admitted[u][i] > now - WindowDuration)
             => GetRemainingRequests(user_requests, u, now) = max_requests - Len(admitted[u])
    /\ last.op = "remaining" =>
          last.result = Max(0, max_requests - CountAfter(last.pre, last.at - WindowDuration))

\* remaining is asked while a stale event is still stored beside a fresh one.
C4_Witness ==
    /\ last.op = "remaining"
    /\ CountAfter(last.pre, now - WindowDuration) = 1
    /\ Len(last.pre) = 2
    /\ last.result = max_requests - 1

\* C5: in check, remaining and cleanup an event exactly at now -
\* window_duration is excluded (not counted, evicted by check and cleanup),
\* an event one second later is included (counted, retained), and an event at
\* now is included.
C5_WindowBoundary ==
    [][/\ last'.op = "check" =>
             LET pre  == Stored(user_requests, last'.user)
                 post == Stored(user_requests', last'.user)
             IN  /\ Occurrences(post, now - WindowDuration) = 0
                 /\ Occurrences(post, now - WindowDuration + 1)
                       = Occurrences(pre, now - WindowDuration + 1)
                          + (IF last'.result /\ WindowDuration = 1 THEN 1 ELSE 0)
                 /\ last'.result <=>
                       Cardinality({i \in DOMAIN pre : pre[i] >= now - WindowDuration + 1}) < max_requests
                 /\ last'.result =>
                       /\ Occurrences(post, now) = Occurrences(pre, now) + 1
                       /\ GetRemainingRequests(user_requests', last'.user, now)
                             = GetRemainingRequests(user_requests, last'.user, now) - 1
       /\ last'.op = "remaining" =>
             LET pre == Stored(user_requests, last'.user)
             IN  last'.result =
                    Max(0, max_requests
                            - Cardinality({i \in DOMAIN pre : pre[i] >= now - WindowDuration + 1 /\ pre[i] <= now}))
       /\ last'.op = "cleanup" =>
             \A u \in Users :
                LET pre  == Stored(user_requests, u)
                    post == Stored(user_requests', u)
                IN  /\ Occurrences(post, now - WindowDuration) = 0
                    /\ Occurrences(post, now - WindowDuration + 1)
                          = Occurrences(pre, now - WindowDuration + 1)
                    /\ Occurrences(post, now) = Occurrences(pre, now)]_vars

\* A check made when one stored event is exactly at now - window_duration
\* and another one second inside the window.
C5_Witness ==
    /\ last.op = "check"
    /\ Occurrences(last.pre, last.at - WindowDuration) = 1
    /\ Occurrences(last.pre, last.at - WindowDuration + 1) = 1
    /\ Stored(user_requests, last.user) = <<last.at - WindowDuration + 1, last.at>>

\* ------------------------------------------------------------- claim C6
\* C6: while an identity is in the block list, check_permissions(id, action)
\* returns false for every action, whatever its flood window holds (also
\* when it is empty) and even when the identity is the configured admin.
C6_BlockListOverrides ==
    /\ last.op = "permissions" /\ last.user \in blocked_users => ~last.result
    /\ \A u \in blocked_users : \A a \in PermissionActions :
          ~CheckUserPermissionsResult(blocked_users, flood_tracker, u, a, now)

\* The blocked admin, with nothing in its flood window, is denied an admin
\* action.
C6_Witness ==
    /\ last.op = "permissions" /\ ~last.result
    /\ last.user \in blocked_users
    /\ last.user = ADMIN_ID
    /\ last.action = "stats"
    /\ CountAfter(last.pre, last.at - 60) = 0

\* ------------------------------------------------------ claims C7 .. C10
\* C7: every handler that goes on to the weather fetch called
\* check_permissions first and got true, so no request of a blocked identity
\* reaches the fetch.
C7_FetchGatedByPermission ==
    last.event = "fetch" => last.permission = "granted" /\ last.user \notin blocked_users

\* C8: in every location-bearing handler the input is validated before the
\* rate limit is checked: a request rejected with a format error leaves the
\* identity's rate-limit sequence unchanged.
C8_FormatErrorCostsNoSlot ==
    [][last'.event \in {"invalid_coordinates", "invalid_location"} =>
          /\ last'.rate = "not_called"
          /\ user_requests' = user_requests]_vars

\* Occurrences of the admission time x among the suspended handlers of u.
InFlightAt(u, x) == CopiesIn([user |-> u, at |-> x], inflight)

InFlightTimes(u) == {r.at : r \in {q \in BagToSet(inflight) : q.user = u}}

\* The weather fetches of u, made or about to be made, that were admitted in
\* (t - window, t].
FetchesIn(u, t) ==
    LET times == {x \in ValuesOf(fetched[u]) \cup InFlightTimes(u) : x > t - WindowDuration /\ x <= t}
        copies(x) == Occurrences(fetched[u], x) + InFlightAt(u, x)
        RECURSIVE Sum(_)
        Sum(S) == IF S = {} THEN 0 ELSE LET x == CHOOSE x \in S : TRUE IN copies(x) + Sum(S \ {x})
    IN  Sum(times)

\* C9: under every interleaving of the handlers of one identity, each weather
\* fetch belongs to a request whose own rate-limit check returned true (one
\* admitted check per fetch), and the fetches admitted for the identity in
\* any window of window_duration never exceed max_requests.
C9_FetchesWithinLimit ==
    /\ last.event = "fetch" => last.rate = "admitted"
    /\ \A u \in Users :
          /\ \A x \in ValuesOf(fetched[u]) \cup InFlightTimes(u) :
                Occurrences(fetched[u], x) + InFlightAt(u, x) <= Occurrences(admitted[u], x)
          /\ \A t \in ValuesOf(fetched[u]) \cup InFlightTimes(u) \cup {now} :
                FetchesIn(u, t) <= max_requests

\* Two handlers of one identity are suspended before their fetch, a fetch of
\* an earlier window has been made, and a further request is turned away.
C9_Witness ==
    /\ last.event = "rate_limited"
    /\ max_requests = 2
    /\ BagCardinality(inflight) = 2
    /\ InFlightAt(last.user, now) = 2
    /\ Len(fetched[last.user]) >= 1

\* C10: a request that check_permissions denies never calls the rate
\* limiter: the rate-limit dict, and with it remaining(id), is unchanged.
C10_PermissionDenialCostsNoSlot ==
    [][last'.permission = "denied" =>
          /\ last'.rate = "not_called"
          /\ user_requests' = user_requests
          /\ admitted' = admitted
          /\ \A u \in Users :
                GetRemainingRequests(user_requests', u, now) = GetRemainingRequests(user_requests, u, now)]_vars

\* A flooding identity that is not blocked, and still has rate-limit slots,
\* is denied access.
C10_Witness ==
    /\ last.event = "access_denied"
    /\ last.user \notin blocked_users
    /\ CountAfter(Stored(flood_tracker, last.user), now - 60) = max_messages_per_minute
    /\ GetRemainingRequests(user_requests, last.user, now) >= 1

\* ---------------------------------------------------- claims C11 .. C13
\* C11: check_permissions(id, action) returns true iff the identity is not
\* blocked, the flood check admits the call, and the action is not admin-only
\* or the identity is the admin; the tests run in that order and the first
\* that fails decides the denial (the event logged), the flood check having
\* recorded the message whenever the block test passed and it admitted.
C11_PermissionsComposition ==
    last.op = "permissions" =>
        LET blocked      == last.user \in blocked_users
            flooding     == CountAfter(last.pre, last.at - 60) >= 10
            unauthorized == last.action \in {"stats", "users", "admin_callback"} /\ last.user # ADMIN_ID
            post         == Stored(flood_tracker, last.user)
        IN  /\ last.result <=> ~blocked /\ ~flooding /\ ~unauthorized
            /\ last.event = (IF blocked THEN "BLOCKED_USER_ACCESS"
                             ELSE IF flooding THEN "FLOOD_DETECTED"
                             ELSE IF unauthorized THEN "UNAUTHORIZED_ADMIN_ACCESS"
                             ELSE "")
            /\ ~blocked /\ ~flooding =>
                  /\ Len(post) = CountAfter(last.pre, last.at - 60) + 1
                  /\ post[Len(post)] = last.at

\* An identity that is neither blocked nor flooding nor the admin (another
\* identity is) is denied an admin-only action, its message counted.
C11_Witness ==
    /\ last.op = "permissions" /\ ~last.result
    /\ last.event = "UNAUTHORIZED_ADMIN_ACCESS"
    /\ ADMIN_ID \in Users
    /\ last.action = "users"
    /\ Len(last.pre) >= 1

\* C12: a check_permissions call of a blocked identity stops before the
\* flood check: the flood tracker is unchanged (no entry created, no event
\* recorded, none evicted) and no flood event is produced.
C12_BlockedCallSkipsFloodCheck ==
    [][last'.op = "permissions" /\ last'.user \in blocked_users =>
          /\ flood_tracker' = flood_tracker
          /\ last'.event = "BLOCKED_USER_ACCESS"]_vars

\* A blocked identity whose flood window is full calls, and a blocked
\* identity the flood tracker has never seen calls.
C12_Witness ==
    /\ last.op = "permissions"
    /\ last.user \in blocked_users
    /\ CountAfter(last.pre, last.at - 60) = max_messages_per_minute
    /\ \E u \in blocked_users : u \notin DOMAIN flood_tracker

\* C13: block and unblock change only the membership of the identity in the
\* block list (flood, spam and rate-limit sequences are untouched), and a
\* check_permissions call of an identity that is not blocked returns what the
\* same call returns in the run where the blocks, the unblocks and the calls
\* made while blocked never happened.
C13_UnblockRestoresBehaviour ==
    [][/\ last'.op \in {"block", "unblock"} =>
             /\ flood_tracker' = flood_tracker
             /\ spam_tracker' = spam_tracker
             /\ user_requests' = user_requests
             /\ blocked_users' \ {last'.user} = blocked_users \ {last'.user}
             /\ last'.user \in blocked_users' <=> last'.op = "block"
       /\ last'.op = "permissions" /\ last'.user \notin blocked_users =>
             /\ last'.result = CheckUserPermissionsResult({}, reference_flood, last'.user, last'.action, now)
             /\ Stored(flood_tracker', last'.user) = Stored(reference_flood', last'.user)]_vars

\* A blocked identity with a full flood window is unblocked: it stays flood
\* limited, as in the run where it was never blocked.
C13_Witness ==
    /\ last.op = "unblock" /\ last.known
    /\ last.user \notin blocked_users
    /\ CountAfter(Stored(flood_tracker, last.user), now - 60) = max_messages_per_minute
    /\ CountAfter(Stored(reference_flood, last.user), now - 60) = max_messages_per_minute

\* ---------------------------------------------------- claims C14 .. C15
\* The oldest timestamp of a non-empty list.
Oldest(history) == CHOOSE x \in ValuesOf(history) : \A y \in ValuesOf(history) : x <= y

\* C14: a flood check is admitted iff fewer than 10 admitted flood checks of
\* the identity lie within the last minute (the admitted checks are the
\* events stored), so from an empty window the first 10 checks of a minute
\* are admitted and every further one is denied; a check made more than one
\* minute after the last admitted one is admitted.
C14_FloodCeiling ==
    last.op = "flood" =>
        LET n    == CountAfter(last.pre, last.at - 60)
            post == Stored(flood_tracker, last.user)
        IN  /\ n <= 10
            /\ last.result <=> n < 10
            /\ last.result => Len(post) = n + 1 /\ post[Len(post)] = last.at
            /\ ~last.result => Len(post) = 10 /\ \A i \in DOMAIN post : post[i] > last.at - 60
            /\ (\A i \in DOMAIN last.pre : last.pre[i] + 60 < last.at) => last.result

\* Ten checks were admitted, part of them has left the window, and a check
\* is admitted again.
C14_Witness ==
    /\ last.op = "flood" /\ last.result
    /\ Len(last.pre) = 10
    /\ CountAfter(last.pre, last.at - 60) \in 1..9

\* C15: a flood denial does not extend the lock-out: a denied check leaves
\* the retained events as they were, a check is denied only within the
\* minute after the oldest retained event, and once the clock has reached
\* (oldest stored event + 1 minute) the identity's flood check is admitted.
C15_FloodDenialEndsWithinAMinute ==
    /\ \A u \in DOMAIN flood_tracker :
          flood_tracker[u] # <<>> /\ now >= Oldest(flood_tracker[u]) + 60
             => CheckFloodResult(flood_tracker, u, now)
    /\ last.op = "flood" /\ ~last.result =>
          /\ last.pre # <<>>
          /\ last.at < Oldest(last.pre) + 60
          /\ Stored(flood_tracker, last.user) = last.pre
    /\ last.op = "flood" /\ last.pre # <<>> /\ last.at >= Oldest(last.pre) + 60 => last.result

\* The window was full, and the check made exactly one minute after the
\* oldest retained event is admitted while the nine others still count.
C15_Witness ==
    /\ last.op = "flood" /\ last.result
    /\ Len(last.pre) = 10
    /\ last.at = Oldest(last.pre) + 60
    /\ CountAfter(last.pre, last.at - 60) = 9

\* ---------------------------------------------------- claims C16 .. C19
\* C16: while check(id) is being denied (max_requests >= 1), reset_time(id)
\* is later than now; until the clock reaches it no step (check, remaining,
\* reset_time, cleanup, clock advance) changes the stored events or the reset
\* time and every check(id) is denied; once the clock has reached it a check
\* is admitted, and stays admissible until the next check(id) is made.
C16_RateLimitRecovery ==
    [][/\ last'.op = "check" /\ ~last'.result /\ max_requests >= 1 =>
             GetResetTime(user_requests', last'.user, now') > now'
       /\ \A u \in Users :
             LET admissible == CheckRateLimitResult(user_requests, u, now)
                 after      == CheckRateLimitResult(user_requests', u, now')
                 reset      == GetResetTime(user_requests, u, now)
                 checked    == last'.op = "check" /\ last'.user = u
             IN  IF admissible
                 THEN IF checked THEN last'.result ELSE after
                 ELSE max_requests >= 1 =>
                         /\ reset > now
                         /\ checked => ~last'.result
                         /\ IF now' < reset
                            THEN /\ Stored(user_requests', u) = Stored(user_requests, u)
                                 /\ GetResetTime(user_requests', u, now') = reset
                                 /\ ~after
                            ELSE after]_vars

\* With the window full (two requests at different times), the check made
\* exactly at the reset time is admitted.
C16_Witness ==
    /\ last.op = "check" /\ last.result
    /\ max_requests = 2
    /\ Len(last.pre) = 2
    /\ last.pre[1] < last.pre[2]
    /\ CountAfter(last.pre, last.at - WindowDuration - 1) = 2
    /\ last.at = Oldest(last.pre) + WindowDuration

\* C17: reset_time(id) is (the minimum stored timestamp of id) +
\* window_duration when the stored list is not empty, and the current time
\* when the identity is unknown or its stored list is empty.
C17_ResetTimeIsOldestPlusWindow ==
    /\ last.op = "reset_time" =>
          last.result = (IF last.pre = <<>> THEN last.at ELSE Oldest(last.pre) + WindowDuration)
    /\ \A u \in Users :
          GetResetTime(user_requests, u, now)
             = (IF Stored(user_requests, u) = <<>> THEN now ELSE Oldest(user_requests[u]) + WindowDuration)

\* reset_time is asked for an identity that is known but has an empty list.
C17_Witness ==
    /\ last.op = "reset_time"
    /\ last.known
    /\ last.pre = <<>>
    /\ last.result = now

\* C18: remaining(id) and reset_time(id) are read-only: the rate-limit dict
\* is the same before and after (no event appended, no stale event evicted,
\* no entry created), so no later check changes its result.
C18_IntrospectionIsReadOnly ==
    [][last'.op \in {"remaining", "reset_time"} =>
          /\ user_requests' = user_requests
          /\ admitted' = admitted
          /\ \A u \in Users :
                CheckRateLimitResult(user_requests', u, now') = CheckRateLimitResult(user_requests, u, now)]_vars

\* remaining is asked for an unknown identity while another identity has a
\* stale event stored.
C18_Witness ==
    /\ last.op = "remaining"
    /\ ~last.known
    /\ last.user \notin DOMAIN user_requests
    /\ \E v \in DOMAIN user_requests :
          CountAfter(user_requests[v], now - WindowDuration) < Len(user_requests[v])

\* In time order.
IsSorted(history) == \A i, j \in DOMAIN history : i <= j => history[i] <= history[j]

\* C19 as stated: every stored list is sorted, and right after check,
\* remaining or reset_time the list of the identity holds no entry with
\* timestamp <= now - window_duration.
C19_SortedAndFreshAfterRead ==
    /\ \A u \in DOMAIN user_requests : IsSorted(user_requests[u])
    /\ last.op \in {"check", "remaining", "reset_time"} =>
          \A i \in DOMAIN Stored(user_requests, last.user) :
             Stored(user_requests, last.user)[i] > last.at - WindowDuration

\* C19 amended: every stored list is sorted; right after check(id) the list
\* of id holds no entry with timestamp <= now - window_duration; remaining
\* and reset_time evict nothing, the stored list is the one they found.
C19_SortedAndFreshAfterCheck ==
    /\ \A u \in DOMAIN user_requests : IsSorted(user_requests[u])
    /\ last.op = "check" =>
          \A i \in DOMAIN Stored(user_requests, last.user) :
             Stored(user_requests, last.user)[i] > last.at - WindowDuration
    /\ last.op \in {"remaining", "reset_time"} => Stored(user_requests, last.user) = last.pre

\* A check finds only stale events stored, evicts them and is admitted.
C19_Witness ==
    /\ last.op = "check" /\ last.result
    /\ Len(last.pre) >= 1
    /\ CountAfter(last.pre, last.at - WindowDuration) = 0
    /\ user_requests[last.user] = <<last.at>>

\* ------------------------------------------------------------ claim C20
\* What a cleanup pass with the given cutoff must make of a tracker: no
\* identity appears; every identity still tracked has a non-empty list whose
\* entries are all newer than the cutoff; an identity with no entry newer than
\* the cutoff is gone; the entries newer than the cutoff are all still there,
\* in the same order (the evicted ones are a prefix of the list).
CleanedUp(pre, post, cutoff) ==
    /\ DOMAIN post \subseteq DOMAIN pre
    /\ \A u \in DOMAIN post :
          /\ post[u] # <<>>
          /\ \A i \in DOMAIN post[u] : post[u][i] > cutoff
    /\ \A u \in DOMAIN pre :
          /\ CountAfter(pre[u], cutoff) = 0 => u \notin DOMAIN post
          /\ CountAfter(pre[u], cutoff) > 0 =>
                /\ u \in DOMAIN post
                /\ \E k \in 0..Len(pre[u]) :
                      /\ post[u] = SubSeq(pre[u], k + 1, Len(pre[u]))
                      /\ \A i \in 1..k : pre[u][i] <= cutoff

\* C20: right after cleanup_old_requests (cutoff now - window_duration) and
\* after cleanup_old_tracking_data (cutoff now - 1 hour, flood and spam
\* trackers) the tracker satisfies the cleanup postcondition.
C20_CleanupPostcondition ==
    [][/\ last'.op = "cleanup" =>
             CleanedUp(user_requests, user_requests', now - WindowDuration)
       /\ last'.op = "cleanup_tracking" =>
             /\ CleanedUp(flood_tracker, flood_tracker', now - 3600)
             /\ CleanedUp(spam_tracker, spam_tracker', now - 3600)]_vars

\* A pass over the flood and spam trackers removed an identity, kept an
\* identity in each tracker, and kept an entry one second newer than the
\* cutoff.
C20_Witness ==
    /\ last.op = "cleanup_tracking"
    /\ last.result >= 1
    /\ flood_tracker # EmptyDict
    /\ spam_tracker # EmptyDict
    /\ \E u \in DOMAIN flood_tracker : flood_tracker[u][1] = now - 3600 + 1

\* ------------------------------------------------------------ claim C21
\* The part of a dict that belongs to identity u.
Only(d, u) == [x \in DOMAIN d \cap {u} |-> d[x]]

\* The operations that take an identity.
IdentityOps == {"check", "remaining", "reset_time", "flood", "permissions", "block", "unblock"}

\* C21: an operation performed for identity a leaves, for every other
\* identity b, the rate-limit sequence, the flood sequence and the block-list
\* membership as they were, and with them the result every operation would
\* return for b; the operation itself reads and writes only the part of the
\* state that belongs to a, so the results of b are those of the run in which
\* the operations of a never happened.
C21_IdentitiesAreIndependent ==
    [][last'.op \in IdentityOps =>
          LET a == last'.user
          IN  /\ \A b \in Users \ {a} :
                    /\ Only(user_requests', b) = Only(user_requests, b)
                    /\ Only(flood_tracker', b) = Only(flood_tracker, b)
                    /\ b \in blocked_users' <=> b \in blocked_users
                    /\ CheckRateLimitResult(user_requests', b, now') = CheckRateLimitResult(user_requests, b, now)
                    /\ GetRemainingRequests(user_requests', b, now') = GetRemainingRequests(user_requests, b, now)
                    /\ GetResetTime(user_requests', b, now') = GetResetTime(user_requests, b, now)
                    /\ CheckFloodResult(flood_tracker', b, now') = CheckFloodResult(flood_tracker, b, now)
                    /\ \A action \in PermissionActions :
                          CheckUserPermissionsResult(blocked_users', flood_tracker', b, action, now')
                             = CheckUserPermissionsResult(blocked_users, flood_tracker, b, action, now)
              /\ last'.op = "check" =>
                    /\ last'.result = CheckRateLimitResult(Only(user_requests, a), a, now)
                    /\ Only(user_requests', a) = RequestsAfterCheck(Only(user_requests, a), a, now)
              /\ last'.op = "remaining" =>
                    last'.result = GetRemainingRequests(Only(user_requests, a), a, now)
              /\ last'.op = "reset_time" =>
                    last'.result = GetResetTime(Only(user_requests, a), a, now)
              /\ last'.op = "flood" =>
                    /\ last'.result = CheckFloodResult(Only(flood_tracker, a), a, now)
                    /\ Only(flood_tracker', a) = FloodAfterCheck(Only(flood_tracker, a), a, now)
              /\ last'.op = "permissions" =>
                    /\ last'.result = CheckUserPermissionsResult(blocked_users \cap {a}, Only(flood_tracker, a),
                                                                 a, last'.action, now)
                    /\ Only(flood_tracker', a) = FloodAfterPermissions(blocked_users \cap {a}, Only(flood_tracker, a), a, now)]_vars

\* One identity is admitted by the rate limiter, a stale event of its own
\* evicted, while the other is being denied.
C21_Witness ==
    /\ last.op = "check" /\ last.result
    /\ max_requests >= 1
    /\ CountAfter(last.pre, last.at - WindowDuration) < Len(last.pre)
    /\ \E b \in Users \ {last.user} : ~CheckRateLimitResult(user_requests, b, now)

\* One identity is let through by check_permissions while the other is
\* blocked and has a full flood window.
C21_WitnessFlood ==
    /\ last.op = "permissions" /\ last.result
    /\ \E b \in blocked_users \ {last.user} :
          CountAfter(Stored(flood_tracker, b), now - 60) = max_messages_per_minute

\* ------------------------------------------------------------ claim C22
\* Every event of pre newer than the cutoff is in post as often as in pre.
KeepsNewerThan(pre, post, cutoff) ==
    \A x \in ValuesOf(pre) : x > cutoff => Occurrences(post, x) = Occurrences(pre, x)

\* Every event of pre newer than the cutoff is in post at least as often.
StillStoresNewerThan(pre, post, cutoff) ==
    \A x \in ValuesOf(pre) : x > cutoff => Occurrences(post, x) >= Occurrences(pre, x)

\* C22: a cleanup pass between the checks removes no event that is still
\* inside the active window (rate limit: window_duration; flood: 1 minute;
\* spam: 5 minutes), deletes no entry that holds such an event, and removes
\* exactly the events at or before its cutoff, each once; through every step
\* the in-window events stay stored, and every admitted rate-limit check still inside the window is
\* stored exactly as often as it was admitted.
C22_CleanupLosesNoUpdate ==
    [][/\ last'.op = "cleanup" =>
             \A u \in Users :
                LET pre  == Stored(user_requests, u)
                    post == Stored(user_requests', u)
                IN  /\ KeepsNewerThan(pre, post, now - WindowDuration)
                    /\ CountAfter(pre, now - WindowDuration) > 0 => u \in DOMAIN user_requests'
                    /\ Len(pre) - Len(post) = Len(pre) - CountAfter(pre, now - WindowDuration)
       /\ last'.op = "cleanup_tracking" =>
             \A u \in Users :
                /\ KeepsNewerThan(Stored(flood_tracker, u), Stored(flood_tracker', u), now - 60)
                /\ CountAfter(Stored(flood_tracker, u), now - 60) > 0 => u \in DOMAIN flood_tracker'
                /\ Len(Stored(flood_tracker, u)) - Len(Stored(flood_tracker', u))
                      = Len(Stored(flood_tracker, u)) - CountAfter(Stored(flood_tracker, u), now - 3600)
                /\ KeepsNewerThan(Stored(spam_tracker, u), Stored(spam_tracker', u), now - 300)
                /\ CountAfter(Stored(spam_tracker, u), now - 300) > 0 => u \in DOMAIN spam_tracker'
                /\ Len(Stored(spam_tracker, u)) - Len(Stored(spam_tracker', u))
                      = Len(Stored(spam_tracker, u)) - CountAfter(Stored(spam_tracker, u), now - 3600)
       /\ \A u \in Users :
             /\ StillStoresNewerThan(Stored(user_requests, u), Stored(user_requests', u), now' - WindowDuration)
             /\ StillStoresNewerThan(Stored(flood_tracker, u), Stored(flood_tracker', u), now' - 60)
             /\ StillStoresNewerThan(Stored(spam_tracker, u), Stored(spam_tracker', u), now' - 300)
             /\ \A x \in ValuesOf(admitted'[u]) :
                   x > now' - WindowDuration =>
                      Occurrences(Stored(user_requests', u), x) = Occurrences(admitted'[u], x)]_vars

\* A pass over the flood and spam trackers removed an identity while another
\* identity had received a flood event and a spam event at the very time of
\* the pass; both are still stored.
C22_Witness ==
    /\ last.op = "cleanup_tracking"
    /\ last.result >= 1
    /\ \E u \in DOMAIN flood_tracker \cap DOMAIN spam_tracker :
          /\ Occurrences(flood_tracker[u], now) >= 1
          /\ Occurrences(spam_tracker[u], now) >= 1

\* A pass over the rate limiter ran right after an admitted check: the
\* event is stored, and the entry of an identity whose events were all stale
\* is gone.
C22_WitnessLimiter ==
    /\ last.op = "cleanup"
    /\ \E u \in DOMAIN user_requests : Occurrences(user_requests[u], now) >= 1
    /\ \E v \in Users : v \notin DOMAIN user_requests /\ admitted[v] # <<>>

\* ------------------------------------------------------------ claim C23
\* C23: validate_coordinates(lat, lon) is true iff -90 <= lat <= 90 and
\* -180 <= lon <= 180, the four ends included: (0, 0), (90, 180) and
\* (-90, -180) are accepted, (91, 0) and (45, -200) rejected.
C23_CoordinateRanges ==
    /\ last.op = "validate_coordinates" =>
          (last.result <=> /\ last.pre[1] \in -90..90
                           /\ last.pre[2] \in -180..180)
    /\ ValidateCoordinates(0, 0)
    /\ ValidateCoordinates(90, 180)
    /\ ValidateCoordinates(-90, -180)
    /\ ~ValidateCoordinates(91, 0)
    /\ ~ValidateCoordinates(45, -200)

\* The north-east corner of the ranges is accepted.
C23_Witness ==
    /\ last.op = "validate_coordinates"
    /\ last.pre = <<90, 180>>
    /\ last.result

\* ------------------------------------------------------------ claim C24
\* The characters of the whitelist: the letters a-z and A-Z, the digits,
\* whitespace, hyphen, period, comma and the two parentheses.
WhitelistedChars ==
    LowerLetters \cup DOMAIN UpperToLower \cup Digits \cup {" ", "\t", "\n", "\r"} \cup {"-", ".", ",", "(", ")"}

\* C24: validate_location(text) is true iff the text holds a character that
\* is not whitespace, is at most 100 characters long, matches none of the
\* malicious patterns and consists of whitelisted characters only;
\* "New York, NY" is accepted, "" and "<img onerror=x>" are rejected.
C24_LocationAccepted ==
    /\ last.op = "validate_location" =>
          (last.result <=> /\ \E i \in DOMAIN last.pre : ~IsSpace(last.pre[i])
                           /\ Len(last.pre) <= 100
                           /\ \A k \in DOMAIN malicious_patterns : ~Search(last.pre, malicious_patterns[k])
                           /\ \A i \in DOMAIN last.pre : last.pre[i] \in WhitelistedChars)
    /\ ValidateLocationInput(<<"N", "e", "w", " ", "Y", "o", "r", "k", ",", " ", "N", "Y">>)
    /\ ~ValidateLocationInput(<<>>)
    /\ ~ValidateLocationInput(<<"<", "i", "m", "g", " ", "o", "n", "e", "r", "r", "o", "r", "=", "x", ">">>)

\* A text of exactly 100 whitelisted characters is accepted.
C24_Witness ==
    /\ last.op = "validate_location"
    /\ Len(last.pre) = 100
    /\ last.result

\* ------------------------------------------------------------ claim C25
\* The characters of s that are not whitespace.
NonSpace(s) == SelectSeq(s, LAMBDA c : ~IsSpace(c))

\* The runs of whitespace of s that stand between two other characters.
InnerRuns(s) ==
    Cardinality({i \in DOMAIN s : /\ IsSpace(s[i])
                                  /\ i > 1 /\ ~IsSpace(s[i - 1])
                                  /\ \E j \in (i + 1)..Len(s) : ~IsSpace(s[j])})

\* t is s with every run of whitespace made one space and both ends trimmed.
IsNormalized(s, t) ==
    /\ NonSpace(t) = NonSpace(s)
    /\ \A i \in DOMAIN t : IsSpace(t[i]) =>
          /\ t[i] = " "
          /\ i > 1 /\ i < Len(t)
          /\ ~IsSpace(t[i + 1])
    /\ Len(t) = Len(NonSpace(s)) + InnerRuns(s)

\* C25: sanitize(text) removes the matches of the patterns one pattern after
\* the other in list order (a pattern without a match changes nothing, a
\* pattern with a match shortens the text), then makes every run of
\* whitespace one space and trims both ends, then cuts a result longer than
\* 1000 characters to its first 1000 and appends "..."; the output is never
\* longer than 1003 characters, and sanitize("<script>alert(1)</script>hello")
\* is "hello".
C25_SanitizePipeline ==
    /\ last.op = "sanitize" =>
          LET text       == last.pre
              stripped   == SubAll(text, Len(malicious_patterns))
              normalized == Strip(CollapseSpaces(stripped))
          IN  /\ \A k \in DOMAIN malicious_patterns :
                    IF Search(SubAll(text, k - 1), malicious_patterns[k])
                    THEN Len(SubAll(text, k)) < Len(SubAll(text, k - 1))
                    ELSE SubAll(text, k) = SubAll(text, k - 1)
              /\ IsNormalized(stripped, normalized)
              /\ Len(normalized) <= 1000 => last.result = normalized
              /\ Len(normalized) > 1000 =>
                    /\ Len(last.result) = 1003
                    /\ \A i \in 1..1000 : last.result[i] = normalized[i]
                    /\ \A i \in 1001..1003 : last.result[i] = "."
              /\ Len(last.result) <= 1003
    /\ SanitizeInput(<<"<", "s", "c", "r", "i", "p", "t", ">", "a", "l", "e", "r", "t", "(", "1", ")", "<", "/", "s", "c", "r", "i", "p", "t", ">", "h", "e", "l", "l", "o">>) = <<"h", "e", "l", "l", "o">>
    /\ SanitizeInput(<<"j", "a", "v", "a", "<", "e", "m", "b", "e", "d", ">", "s", "c", "r", "i", "p", "t", ":">>) = <<"j", "a", "v", "a", "s", "c", "r", "i", "p", "t", ":">>

\* A text of 1200 characters, letters and spaces in turn, is cut to 1000
\* characters and the marker.
C25_Witness ==
    /\ last.op = "sanitize"
    /\ Len(last.pre) = 1200
    /\ Len(last.result) = 1003
    /\ last.result[1000] = " "
    /\ last.result[1003] = "."

\* ------------------------------------------------------------ claim C26
\* C26 as stated: every flood check, admitted or denied, records an event at
\* the time of the call.
C26_FloodCheckAlwaysRecords ==
    last.op = "flood" =>
        Occurrences(Stored(flood_tracker, last.user), last.at) = Occurrences(last.pre, last.at) + 1

\* C26 amended: a flood check records an event at the time of the call
\* exactly when it is admitted; a denied call records nothing, the events of
\* the last minute are stored as they were.
C26_FloodCheckRecordsIffAdmitted ==
    last.op = "flood" =>
        LET post == Stored(flood_tracker, last.user)
        IN  /\ Occurrences(post, last.at)
                 = Occurrences(last.pre, last.at) + (IF last.result THEN 1 ELSE 0)
            /\ Len(post) = CountAfter(last.pre, last.at - 60) + (IF last.result THEN 1 ELSE 0)
            /\ ~last.result => \A x \in ValuesOf(post) : Occurrences(post, x) = Occurrences(last.pre, x)

\* An eleventh call within the minute is denied and leaves the ten events.
C26_Witness ==
    /\ last.op = "flood" /\ ~last.result
    /\ Len(Stored(flood_tracker, last.user)) = max_messages_per_minute
    /\ Occurrences(Stored(flood_tracker, last.user), last.at) = Occurrences(last.pre, last.at)

C28_BoundedStorage ==
    \A u \in Users :
        /\ Len(Stored(user_requests, u)) <= max_requests
        /\ Len(Stored(flood_tracker, u)) <= 10
        /\ Len(Stored(spam_tracker, u)) <= 3

\* A flood list holds ten entries, all of them stale.
C28_Witness ==
    \E u \in DOMAIN flood_tracker :
        /\ Len(flood_tracker[u]) = 10
        /\ CountAfter(flood_tracker[u], now - 60) = 0

\* A rate-limit list holds max_requests entries, all of them stale.
C28_WitnessLimiter ==
    /\ max_requests >= 1
    /\ \E u \in DOMAIN user_requests :
          /\ Len(user_requests[u]) = max_requests
          /\ CountAfter(user_requests[u], now - WindowDuration) = 0

\* ------------------------------------------------------------ claim C29
\* C29: cleanup passes change no later result.  In every reachable state the
\* rate-limit dict and the dict a pass would leave of it (a) give the same
\* check and remaining result for every identity, (b) are taken by a check
\* to dicts that a pass makes equal, and (c) are made equal by a pass after
\* every clock step; the same holds of the flood and the spam tracker, the
\* pass with the one-hour cutoff, and the flood check, the spam check and
\* check_permissions.  With (a)-(c) the run with passes inserted and the run
\* without them differ, step after step, only in what a pass would remove,
\* and so return the same results.
C29_CleanupIsTransparent ==
    LET requests == RequestsAfterCleanup(user_requests, now)
        flood    == TrackingAfterCleanup(flood_tracker, now)
        spam     == TrackingAfterCleanup(spam_tracker, now)
    IN  /\ \A u \in Users :
              /\ CheckRateLimitResult(requests, u, now) = CheckRateLimitResult(user_requests, u, now)
              /\ GetRemainingRequests(requests, u, now) = GetRemainingRequests(user_requests, u, now)
              /\ RequestsAfterCleanup(RequestsAfterCheck(requests, u, now), now)
                    = RequestsAfterCleanup(RequestsAfterCheck(user_requests, u, now), now)
              /\ CheckFloodResult(flood, u, now) = CheckFloodResult(flood_tracker, u, now)
              /\ \A action \in PermissionActions :
                    CheckUserPermissionsResult(blocked_users, flood, u, action, now)
                       = CheckUserPermissionsResult(blocked_users, flood_tracker, u, action, now)
              /\ TrackingAfterCleanup(FloodAfterCheck(flood, u, now), now)
                    = TrackingAfterCleanup(FloodAfterCheck(flood_tracker, u, now), now)
              /\ \A text \in SpamTexts :
                    /\ CheckSpamResult(spam, u, text, now) = CheckSpamResult(spam_tracker, u, text, now)
                    /\ TrackingAfterCleanup(SpamAfterCheck(spam, u, text, now), now)
                          = TrackingAfterCleanup(SpamAfterCheck(spam_tracker, u, text, now), now)
        /\ \A d \in LimiterJumps :
              RequestsAfterCleanup(requests, now + d) = RequestsAfterCleanup(user_requests, now + d)
        /\ \A d \in FloodJumps \cup SpamJumps \cup CleanupJumps :
              /\ TrackingAfterCleanup(flood, now + d) = TrackingAfterCleanup(flood_tracker, now + d)
              /\ TrackingAfterCleanup(spam, now + d) = TrackingAfterCleanup(spam_tracker, now + d)

\* A limiter pass has deleted the entry of an identity whose requests were
\* all stale (the identity had been admitted before and is unknown now);
\* the identity's next check is admitted.
C29_Witness ==
    /\ last.op = "check" /\ last.result
    /\ ~last.known
    /\ Len(admitted[last.user]) >= 2

\* A tracking pass has removed an identity and kept three spam events of
\* another that are older than five minutes and newer than one hour.
C29_WitnessTracking ==
    /\ last.op = "cleanup_tracking"
    /\ last.result >= 1
    /\ \E u \in DOMAIN spam_tracker :
          /\ Len(spam_tracker[u]) = 3
          /\ CountAfter(spam_tracker[u], now - 300) = 0

\* ---------------------------------------------------------------- claim C30
\* C30: reset_time(id) is never earlier than the current time: the value a
\* get_reset_time call returned is at or after the time of the call, and in
\* every reachable state, cleanup passes having run or not, the value the
\* call would return for any identity is at or after now.
C30_ResetTimeNeverInPast ==
    /\ last.op = "reset_time" => last.result >= last.at
    /\ \A u \in Users : GetResetTime(user_requests, u, now) >= now

====
